---- MODULE Spec2Model ----
(***************************************************************************)
(* Effect-size conversions of qconv_param/logic.py.                        *)
(*                                                                         *)
(* The functions are pure.  A behaviour is one call: the initial state     *)
(* holds the function name and its arguments, the one step evaluates the   *)
(* function and stores what the call produced (a returned value or the     *)
(* exception it raised).                                                   *)
(*                                                                         *)
(* Numbers are exact (no floating-point rounding):                         *)
(*   - d and p of cohen_d_to_r_pb are rationals <<n, d>>, d > 0, reduced;  *)
(*   - auc is in thousandths;                                              *)
(*   - s1, s2, p1 are fixed-point integers in units of 1e-8 (the absolute  *)
(*     tolerance of np.isclose), so that values that differ and are still  *)
(*     "close" exist among small integers;                                 *)
(*   - sensitivity, specificity, ppv, npv are fixed-point integers in      *)
(*     units of 1e-9 (the eps of the clipping).                            *)
(* An irrational result is kept in closed form: sqrt(radicand) * z,        *)
(* d / sqrt(q), ln(num / den).                                             *)
(***************************************************************************)
EXTENDS Integers, Sequences, FiniteSets, TLC

VARIABLES fn, args, pc, result

vars == <<fn, args, pc, result>>

----------------------------------------------------------------------------
(* Bounds of the explored inputs *)

\* |numerator| of d is at most MaxD
MaxD == 4
\* d = k / DDen
DDen == 2
\* p = j / PDen, j in -1 .. PDen + 1
PDen == 4
\* s1, s2 in 0 .. MaxS units of 1e-8
MaxS == 2
\* sensitivity, specificity, ppv, npv within MaxOff units of 1e-9 of 0 and of 1
MaxOff == 2

----------------------------------------------------------------------------
(* Exact arithmetic *)

Abs(x) == IF x < 0 THEN -x ELSE x

Sign(x) == IF x < 0 THEN -1 ELSE IF x = 0 THEN 0 ELSE 1

RECURSIVE GCD(_, _)
GCD(a, b) == IF b = 0 THEN a ELSE GCD(b, a % b)

\* the rational n / d (d # 0) in lowest terms with a positive denominator
Rat(n, d) ==
    LET g == GCD(Abs(n), Abs(d))
        s == IF d < 0 THEN -1 ELSE 1
    IN  <<(s * n) \div g, (s * d) \div g>>

RAdd(x, y) == Rat(x[1] * y[2] + y[1] * x[2], x[2] * y[2])

RMul(x, y) == Rat(x[1] * y[1], x[2] * y[2])

RSub(x, y) == RAdd(x, <<-y[1], y[2]>>)

\* x / y, y # 0
RDiv(x, y) == Rat(x[1] * y[2], x[2] * y[1])

RLess(x, y) == x[1] * y[2] < y[1] * x[2]

RZero == <<0, 1>>

ROne == <<1, 1>>

----------------------------------------------------------------------------
(* Optional arguments: None is <<>>, a supplied v is <<v>> *)

None == <<>>

Some(v) == <<v>>

IsNone(o) == Len(o) = 0

Val(o) == o[1]

----------------------------------------------------------------------------
(* What a call produces *)

NoResult == [kind |-> "pending", exc |-> "", msg |-> "", value |-> <<>>]

Return(v) == [kind |-> "return", exc |-> "", msg |-> "", value |-> v]

Raise(exc, msg) == [kind |-> "raise", exc |-> exc, msg |-> msg, value |-> <<>>]

----------------------------------------------------------------------------
(* cohen_d_to_r_pb(d, p): d and p are rationals *)

\* p + (1 - p): a sum written for the product
CohenDivisorSum(p) == RAdd(p, RSub(ROne, p))

\* p * (1 - p), the divisor of h
CohenDivisor(p) == RMul(p, RSub(ROne, p))

\* h = 1 / (p * (1 - p)), for a non-zero divisor
CohenH(p) == RDiv(ROne, CohenDivisor(p))

\* d**2 - h: the sign of h flipped
CohenRadicandMinus(d, h) == RSub(RMul(d, d), h)

\* d**2 + h, the argument of math.sqrt
CohenRadicand(d, h) == RAdd(RMul(d, d), h)

\* The returned value stands for d / sqrt(q).  The division 1 / 0 raises
\* ZeroDivisionError, math.sqrt of a negative number raises ValueError and
\* d / 0.0 raises ZeroDivisionError.
cohen_d_to_r_pb(d, p) ==
    IF CohenDivisor(p) = RZero
    THEN Raise("ZeroDivisionError", "division by zero")
    ELSE LET h == CohenH(p)
             q == CohenRadicand(d, h)
         IN  IF RLess(q, RZero)
             THEN Raise("ValueError", "math domain error")
             ELSE IF q = RZero
             THEN Raise("ZeroDivisionError", "float division by zero")
             ELSE Return([num |-> d, radicand |-> q])

\* sign of r = num / sqrt(radicand): the square root is positive
RpbSign(v) == Sign(v.num[1])

\* |r| < 1  iff  num^2 < radicand
RpbAbsBelowOne(v) == RLess(RMul(v.num, v.num), v.radicand)

----------------------------------------------------------------------------
(* auc_to_d(auc, s1, s2, p1) *)

\* auc is in thousandths
AucLo == 500

AucHi == 1000

\* 1.0 and 0.5 in units of 1e-8
One8 == 100000000

Half8 == One8 \div 2

\* np.isclose defaults: atol = 1e-8 (one unit), rtol = 1e-5
Atol == 1

RtolInv == 100000

\* np.isclose(a, b): |a - b| <= atol + rtol * |b|.  With a and b whole numbers
\* of units the right-hand side can be rounded down.
IsClose(a, b) == Abs(a - b) <= Atol + (Abs(b) \div RtolInv)

\* norm.ppf on the explored values of auc, in thousandths; norm.ppf(1.0) = inf
PpfTable ==
    (500 :> 0) @@ (501 :> 3) @@ (600 :> 253) @@ (750 :> 674) @@
    (900 :> 1282) @@ (999 :> 3090)

NormPpf(auc) ==
    IF auc = AucHi
    THEN [inf |-> TRUE, milli |-> 0]
    ELSE [inf |-> FALSE, milli |-> PpfTable[auc]]

\* not (0.5 < auc <= 1.0): the lower end excluded
AucOutOfRangeStrict(auc) == ~(AucLo < auc /\ auc <= AucHi)

\* not (0.5 <= auc <= 1.0)
AucOutOfRange(auc) == ~(AucLo <= auc /\ auc <= AucHi)

NoContext(s1, s2, p1) == IsNone(s1) /\ IsNone(s2) /\ IsNone(p1)

EqualVariance(s1, s2) ==
    ~IsNone(s1) /\ ~IsNone(s2) /\ IsClose(Val(s1), Val(s2))

BalancedBaseRate(p1) == ~IsNone(p1) /\ IsClose(Val(p1), Half8)

MissingContext(s1, s2, p1) == IsNone(s1) \/ IsNone(s2) \/ IsNone(p1)

\* 2 * z_score: the square root dropped
BalancedNoSqrt(z_score) == Return([radicand |-> <<4, 1>>, z |-> z_score])

\* np.sqrt(2) * z_score
Balanced(z_score) == Return([radicand |-> <<2, 1>>, z |-> z_score])

\* s1**2 + s2**2, in units of 1e-16
FullNumerator(s1, s2) == s1 * s1 + s2 * s2

\* p1 * s1**2 + p1 * s2**2: p1 written for p2
FullDenominatorSameRate(s1, s2, p1) == (p1 * s1 * s1) + (p1 * s2 * s2)

\* p1 * s1**2 + p2 * s2**2, in units of 1e-24
FullDenominator(s1, s2, p1) ==
    LET p2 == One8 - p1
    IN  (p1 * s1 * s1) + (p2 * s2 * s2)

\* np.sqrt(numerator / denominator) * z_score.  The operands are Python
\* floats: a zero denominator raises ZeroDivisionError.  np.sqrt of a negative
\* number returns nan, which is a returned value.
FullParametric(s1, s2, p1, z_score) ==
    LET numerator == FullNumerator(s1, s2)
        denominator == FullDenominator(s1, s2, p1)
    IN  IF denominator = 0
        THEN Raise("ZeroDivisionError", "float division by zero")
        ELSE Return([radicand |-> Rat(numerator * One8, denominator),
                     z |-> z_score])

\* missing context falls back to the balanced case and raises nothing
auc_to_d_silent_default(auc, s1, s2, p1) ==
    IF AucOutOfRange(auc)
    THEN Raise("ValueError", "AUC must be between 0.5 and 1.0")
    ELSE LET z_score == NormPpf(auc)
         IN  IF NoContext(s1, s2, p1) THEN Balanced(z_score)
             ELSE IF EqualVariance(s1, s2) THEN Balanced(z_score)
             ELSE IF BalancedBaseRate(p1) THEN Balanced(z_score)
             ELSE IF MissingContext(s1, s2, p1) THEN Balanced(z_score)
             ELSE FullParametric(Val(s1), Val(s2), Val(p1), z_score)

\* the check for missing context moved before the two shortcuts
auc_to_d_usage_first(auc, s1, s2, p1) ==
    IF AucOutOfRange(auc)
    THEN Raise("ValueError", "AUC must be between 0.5 and 1.0")
    ELSE LET z_score == NormPpf(auc)
         IN  IF NoContext(s1, s2, p1) THEN Balanced(z_score)
             ELSE IF MissingContext(s1, s2, p1)
             THEN Raise("ValueError", "Full parametric conversion requires s1, s2, and p1")
             ELSE IF EqualVariance(s1, s2) THEN Balanced(z_score)
             ELSE IF BalancedBaseRate(p1) THEN Balanced(z_score)
             ELSE FullParametric(Val(s1), Val(s2), Val(p1), z_score)

\* the check for missing context moved before the base-rate shortcut
auc_to_d_base_rate_last(auc, s1, s2, p1) ==
    IF AucOutOfRange(auc)
    THEN Raise("ValueError", "AUC must be between 0.5 and 1.0")
    ELSE LET z_score == NormPpf(auc)
         IN  IF NoContext(s1, s2, p1) THEN Balanced(z_score)
             ELSE IF EqualVariance(s1, s2) THEN Balanced(z_score)
             ELSE IF MissingContext(s1, s2, p1)
             THEN Raise("ValueError", "Full parametric conversion requires s1, s2, and p1")
             ELSE IF BalancedBaseRate(p1) THEN Balanced(z_score)
             ELSE FullParametric(Val(s1), Val(s2), Val(p1), z_score)

auc_to_d(auc, s1, s2, p1) ==
    IF AucOutOfRange(auc)
    THEN Raise("ValueError", "AUC must be between 0.5 and 1.0")
    ELSE LET z_score == NormPpf(auc)
         IN  IF NoContext(s1, s2, p1) THEN Balanced(z_score)
             ELSE IF EqualVariance(s1, s2) THEN Balanced(z_score)
             ELSE IF BalancedBaseRate(p1) THEN Balanced(z_score)
             ELSE IF MissingContext(s1, s2, p1)
             THEN Raise("ValueError", "Full parametric conversion requires s1, s2, and p1")
             ELSE FullParametric(Val(s1), Val(s2), Val(p1), z_score)

----------------------------------------------------------------------------
(* logodds_from_sens_spec and logodds_from_ppv_npv *)

\* 1.0 in units of 1e-9
One9 == 1000000000

\* eps = 1e-9, one unit
Eps == 1

Min(a, b) == IF a < b THEN a ELSE b

Max(a, b) == IF a > b THEN a ELSE b

\* np.clip(x, lo, hi) = minimum(maximum(x, lo), hi)
Clip(x, lo, hi) == Min(Max(x, lo), hi)

\* The product a * b of two fixed-point numbers, kept as its two factors
\* (units of 1e-18).
Prod(a, b) == <<a, b>>

ProdSign(x) == Sign(x[1]) * Sign(x[2])

\* numer / denom on np.float64 operands: a zero divisor gives inf, -inf or
\* nan and raises nothing.
Divide(numer, denom) ==
    [num |-> numer, den |-> denom,
     is |-> IF ProdSign(denom) # 0 THEN "finite"
            ELSE IF ProdSign(numer) > 0 THEN "inf"
            ELSE IF ProdSign(numer) < 0 THEN "-inf"
            ELSE "nan"]

RatioSign(x) == ProdSign(x.num) * ProdSign(x.den)

\* math.log(x): x <= 0 (and -inf) raises ValueError; log(inf) = inf and
\* log(nan) = nan are returned.  The returned value stands for ln(x).
MathLog(x) ==
    IF x.is = "-inf" \/ (x.is = "finite" /\ RatioSign(x) <= 0)
    THEN Raise("ValueError", "math domain error")
    ELSE Return(x)

\* the lower bound of the clipping written 0 for eps
logodds_from_sens_spec_clip0(sensitivity, specificity) ==
    LET eps == Eps
        sens == Clip(sensitivity, 0, One9 - eps)
        spec == Clip(specificity, 0, One9 - eps)
        odds_ratio == Divide(Prod(sens, spec), Prod(One9 - sens, One9 - spec))
    IN  MathLog(odds_ratio)

logodds_from_sens_spec(sensitivity, specificity) ==
    LET eps == Eps
        sens == Clip(sensitivity, eps, One9 - eps)
        spec == Clip(specificity, eps, One9 - eps)
        odds_ratio == Divide(Prod(sens, spec), Prod(One9 - sens, One9 - spec))
    IN  MathLog(odds_ratio)

logodds_from_ppv_npv(ppv, npv) ==
    LET eps == Eps
        p == Clip(ppv, eps, One9 - eps)
        n == Clip(npv, eps, One9 - eps)
        odds_ratio == Divide(Prod(p, n), Prod(One9 - p, One9 - n))
    IN  MathLog(odds_ratio)

----------------------------------------------------------------------------
(* The explored inputs *)

DValues == {Rat(k, DDen) : k \in -MaxD .. MaxD}

PValues == {Rat(j, PDen) : j \in -1 .. PDen + 1}

\* in the range: the arguments of PpfTable and 1.0; the others are out of it
AucValues == DOMAIN PpfTable \cup {AucHi} \cup {-500, 0, 250, 499, 1001, 1500}

SValues == {None} \cup {Some(k) : k \in 0 .. MaxS}

\* 0.5 is close to the values within 501 units of it
P1Values ==
    {None} \cup {Some(k * (One8 \div 4)) : k \in -1 .. 5}
           \cup {Some(Half8 + j) : j \in {-502, -501, 501, 502}}

ProbValues ==
    {k : k \in -MaxOff .. MaxOff} \cup {One9 + k : k \in -MaxOff .. MaxOff}
        \cup {-One9, One9 \div 2, 2 * One9}

----------------------------------------------------------------------------
(* One call *)

Init ==
    /\ pc = "call"
    /\ result = NoResult
    /\ \/ /\ fn = "cohen_d_to_r_pb"
          /\ args \in [d : DValues, p : PValues]
       \/ /\ fn = "auc_to_d"
          /\ args \in [auc : AucValues, s1 : SValues, s2 : SValues, p1 : P1Values]
       \/ /\ fn = "logodds_from_sens_spec"
          /\ args \in [sensitivity : ProbValues, specificity : ProbValues]
       \/ /\ fn = "logodds_from_ppv_npv"
          /\ args \in [ppv : ProbValues, npv : ProbValues]

CallCohenDToRPb ==
    /\ pc = "call" /\ fn = "cohen_d_to_r_pb"
    /\ result' = cohen_d_to_r_pb(args.d, args.p)
    /\ pc' = "done"
    /\ UNCHANGED <<fn, args>>

CallAucToD ==
    /\ pc = "call" /\ fn = "auc_to_d"
    /\ result' = auc_to_d(args.auc, args.s1, args.s2, args.p1)
    /\ pc' = "done"
    /\ UNCHANGED <<fn, args>>

CallLogoddsFromSensSpec ==
    /\ pc = "call" /\ fn = "logodds_from_sens_spec"
    /\ result' = logodds_from_sens_spec(args.sensitivity, args.specificity)
    /\ pc' = "done"
    /\ UNCHANGED <<fn, args>>

CallLogoddsFromPpvNpv ==
    /\ pc = "call" /\ fn = "logodds_from_ppv_npv"
    /\ result' = logodds_from_ppv_npv(args.ppv, args.npv)
    /\ pc' = "done"
    /\ UNCHANGED <<fn, args>>

Next ==
    \/ CallCohenDToRPb
    \/ CallAucToD
    \/ CallLogoddsFromSensSpec
    \/ CallLogoddsFromPpvNpv

Spec == Init /\ [][Next]_vars

TypeOK ==
    /\ pc \in {"call", "done"}
    /\ result.kind \in {"pending", "return", "raise"}
    /\ (pc = "call") = (result.kind = "pending")

----------------------------------------------------------------------------
(* Properties *)

Done(f) == pc = "done" /\ fn = f

IsDomainError(r) ==
    r.kind = "raise" /\ r.exc = "ValueError"
        /\ r.msg = "AUC must be between 0.5 and 1.0"

IsUsageError(r) ==
    r.kind = "raise" /\ r.exc = "ValueError"
        /\ r.msg = "Full parametric conversion requires s1, s2, and p1"

\* two calls produce the same thing
SameResult(a, b) ==
    /\ a.kind = b.kind
    /\ a.exc = b.exc
    /\ a.msg = b.msg
    /\ (a.kind = "return" => a.value = b.value)

AucInRange == args.auc >= AucLo /\ args.auc <= AucHi

\* how many of s1, s2, p1 are supplied
Supplied ==
    (IF IsNone(args.s1) THEN 0 ELSE 1) + (IF IsNone(args.s2) THEN 0 ELSE 1)
        + (IF IsNone(args.p1) THEN 0 ELSE 1)

\* C1: every auc below 0.5 or above 1.0 makes auc_to_d raise the domain-range
\* error, whatever s1, s2, p1 are; auc = 0.5 and auc = 1.0 do not raise it.
C1_AucOutsideRangeRejected ==
    Done("auc_to_d") =>
        /\ (args.auc < AucLo \/ args.auc > AucHi) => IsDomainError(result)
        /\ (args.auc = AucLo \/ args.auc = AucHi) => ~IsDomainError(result)

C1_Witness ==
    /\ Done("auc_to_d")
    /\ args.auc > AucHi
    /\ Supplied = 3
    /\ IsDomainError(result)

\* C2 as amended: with auc in [0.5, 1.0], one or two of s1, s2, p1 supplied,
\* s1 and s2 not both supplied and close (|s1 - s2| <= 1e-8 + 1e-5 * |s2|),
\* and p1 not supplied and close to 0.5 (|p1 - 0.5| <= 1e-8 + 1e-5 * 0.5),
\* auc_to_d raises the usage error and returns nothing.
C2_PartialContextNotCloseIsUsageError ==
    ( /\ Done("auc_to_d")
      /\ AucInRange
      /\ Supplied \in {1, 2}
      /\ ~EqualVariance(args.s1, args.s2)
      /\ ~BalancedBaseRate(args.p1) )
    => IsUsageError(result)

C2_Witness ==
    /\ Done("auc_to_d")
    /\ AucInRange
    /\ ~IsNone(args.s1) /\ ~IsNone(args.s2) /\ IsNone(args.p1)
    /\ Val(args.s2) - Val(args.s1) > 1
    /\ IsUsageError(result)

\* C2 as stated: with auc in [0.5, 1.0], one or two of s1, s2, p1 supplied,
\* s1 and s2 not both supplied and equal, and p1 not supplied and equal to
\* 0.5, auc_to_d raises the usage error.
C2_PartialContextIsUsageError ==
    ( /\ Done("auc_to_d")
      /\ AucInRange
      /\ Supplied \in {1, 2}
      /\ ~(~IsNone(args.s1) /\ ~IsNone(args.s2) /\ Val(args.s1) = Val(args.s2))
      /\ ~(~IsNone(args.p1) /\ Val(args.p1) = Half8) )
    => IsUsageError(result)

\* C3: with auc in [0.5, 1.0] and s1, s2 both supplied and equal, auc_to_d
\* produces what the call with auc alone produces, for any p1, supplied or
\* not.
C3_EqualVarianceIsBalanced ==
    ( /\ Done("auc_to_d")
      /\ AucInRange
      /\ ~IsNone(args.s1) /\ ~IsNone(args.s2)
      /\ Val(args.s1) = Val(args.s2) )
    => /\ result.kind = "return"
       /\ SameResult(result, auc_to_d(args.auc, None, None, None))

C3_Witness ==
    /\ Done("auc_to_d")
    /\ AucInRange
    /\ ~IsNone(args.s1) /\ ~IsNone(args.s2)
    /\ Val(args.s1) = Val(args.s2)
    /\ Val(args.s1) > 0
    /\ IsNone(args.p1)
    /\ result.kind = "return"

\* C4: with auc in [0.5, 1.0] and p1 supplied and equal to 0.5, auc_to_d
\* produces what the call with auc alone produces, for any s1 and s2, also
\* when one or both are not supplied.
C4_BalancedBaseRateIsBalanced ==
    ( /\ Done("auc_to_d")
      /\ AucInRange
      /\ ~IsNone(args.p1)
      /\ Val(args.p1) = Half8 )
    => /\ result.kind = "return"
       /\ SameResult(result, auc_to_d(args.auc, None, None, None))

C4_Witness ==
    /\ Done("auc_to_d")
    /\ AucInRange
    /\ ~IsNone(args.p1)
    /\ Val(args.p1) = Half8
    /\ ~IsNone(args.s1)
    /\ IsNone(args.s2)
    /\ result.kind = "return"

\* C5 as amended: with s1, s2, p1 all supplied and either s1 = s2 exactly and
\* not zero, or p1 = 0.5 exactly and s1, s2 not both zero, what auc_to_d
\* returns is the value of the full formula for the same arguments, whose
\* denominator is not zero.
C5_ExactShortcutsAreExact ==
    ( /\ Done("auc_to_d")
      /\ AucInRange
      /\ Supplied = 3
      /\ \/ Val(args.s1) = Val(args.s2) /\ Val(args.s1) # 0
         \/ Val(args.p1) = Half8 /\ (Val(args.s1) # 0 \/ Val(args.s2) # 0) )
    => /\ FullDenominator(Val(args.s1), Val(args.s2), Val(args.p1)) # 0
       /\ SameResult(result,
                     FullParametric(Val(args.s1), Val(args.s2), Val(args.p1),
                                    NormPpf(args.auc)))

C5_Witness ==
    /\ Done("auc_to_d")
    /\ AucInRange
    /\ Supplied = 3
    /\ Val(args.s1) = Val(args.s2) /\ Val(args.s1) # 0
    /\ Val(args.p1) # Half8 /\ Val(args.p1) > 0 /\ Val(args.p1) < One8
    /\ result.kind = "return"
    /\ result.value.radicand = <<2, 1>>

\* C5 as stated: whenever s1, s2, p1 are all supplied and auc_to_d takes one
\* of the two shortcuts, what it returns is the value of the full formula for
\* the same arguments, whose denominator is not zero.
C5_ShortcutsAreExact ==
    ( /\ Done("auc_to_d")
      /\ AucInRange
      /\ Supplied = 3
      /\ (EqualVariance(args.s1, args.s2) \/ BalancedBaseRate(args.p1)) )
    => /\ FullDenominator(Val(args.s1), Val(args.s2), Val(args.p1)) # 0
       /\ SameResult(result,
                     FullParametric(Val(args.s1), Val(args.s2), Val(args.p1),
                                    NormPpf(args.auc)))

\* the input of the claim after saturation: at or below 0 it is eps, at or
\* above 1 it is 1 - eps
Saturated(x) ==
    IF x <= Eps THEN Eps ELSE IF x >= One9 - Eps THEN One9 - Eps ELSE x

\* ln((a * b) / ((1 - a) * (1 - b))) with both products positive
LogOddsOf(r, a, b) ==
    /\ r.kind = "return"
    /\ r.value.is = "finite"
    /\ r.value.num = Prod(a, b)
    /\ r.value.den = Prod(One9 - a, One9 - b)
    /\ ProdSign(r.value.num) > 0
    /\ ProdSign(r.value.den) > 0

\* C6: logodds_from_sens_spec and logodds_from_ppv_npv raise nothing; they
\* return ln((a * b) / ((1 - a) * (1 - b))) of the saturated inputs a, b, with
\* a positive numerator and a positive denominator.
C6_LogOddsNeverFail ==
    /\ Done("logodds_from_sens_spec") =>
           LogOddsOf(result, Saturated(args.sensitivity),
                     Saturated(args.specificity))
    /\ Done("logodds_from_ppv_npv") =>
           LogOddsOf(result, Saturated(args.ppv), Saturated(args.npv))

C6_Witness ==
    /\ Done("logodds_from_sens_spec")
    /\ args.sensitivity >= One9
    /\ args.specificity <= 0
    /\ result.kind = "return"
    /\ result.value.num = Prod(One9 - Eps, Eps)

\* C7: with auc in [0.5, 1.0] and none of s1, s2, p1 supplied, auc_to_d
\* returns sqrt(2) * z, z the normal quantile of auc; auc = 0.5 gives 0.
C7_BalancedIsSqrt2TimesZ ==
    ( /\ Done("auc_to_d")
      /\ AucInRange
      /\ Supplied = 0 )
    => /\ result.kind = "return"
       /\ result.value.radicand = <<2, 1>>
       /\ result.value.z = NormPpf(args.auc)
       /\ (args.auc = AucLo =>
              ~result.value.z.inf /\ result.value.z.milli = 0)

C7_Witness ==
    /\ Done("auc_to_d")
    /\ args.auc > AucLo /\ args.auc < AucHi
    /\ Supplied = 0
    /\ result.kind = "return"
    /\ result.value.z.milli > 0

PInsideUnitInterval == RLess(RZero, args.p) /\ RLess(args.p, ROne)

C9_FullContextReturns ==
    ( /\ Done("auc_to_d")
      /\ AucInRange
      /\ Supplied = 3 )
    => result.kind = "return"

\* C10: with p = 0 or p = 1, cohen_d_to_r_pb raises an error or returns 0; it
\* returns no non-zero correlation.
C10_DegeneratePNeverNonZero ==
    ( /\ Done("cohen_d_to_r_pb")
      /\ (args.p = RZero \/ args.p = ROne) )
    => \/ result.kind = "raise"
       \/ (result.kind = "return" /\ RpbSign(result.value) = 0)

C10_Witness ==
    /\ Done("cohen_d_to_r_pb")
    /\ args.p = ROne
    /\ args.d[1] # 0
    /\ result.kind = "raise"
    /\ result.exc = "ZeroDivisionError"

====
